---- MODULE Spec2Model ----
(***************************************************************************)
(* State-machine model of the APS Summit harvesting tools:                 *)
(*   ExtractAbstracts.main   ("EA")  flat loop over event_urls.txt         *)
(*   WebScraper.main         ("WS")  flat loop over discovered URLs        *)
(*   ExtractFromSessions.main ("EFS") session loop, talk loop, both        *)
(*                                    Cloudflare gates, per-session JSON   *)
(*   ExtractFilteredSessions.main ("XFS") discovery of the session URLs    *)
(*   WebScraper.collect_all_event_urls and the ordering of its result at   *)
(*                           the head of WebScraper.main ("WSD")           *)
(*   extract_talk_fields     ("ATF") the abstract cascade                  *)
(*   is_superconducting_qubit_related ("CLS") the classifier on two texts  *)
(*   the lazy-load scroll loops of collect_all_event_urls ("WSC") and of   *)
(*                           extract_session_urls_from_page ("XSC")        *)
(* Text is a sequence of blocks; a block of markup stands for 1000         *)
(* characters, so html[:2000] is the first two blocks.                     *)
(***************************************************************************)
EXTENDS Integers, Sequences, FiniteSets, TLC

VARIABLES
    prog,            \* which program runs: "EA", "WS", "EFS", "XFS", "WSD",
                     \* "ATF", "CLS", "WSC" or "XSC"
    pc,              \* position of main
    urls,            \* urls / all_urls / session_urls
    i,               \* iterations of the per-URL loop started so far
    rows,            \* accepted records of the flat loops
    rec,             \* record extract_talk_fields returned in this visit
    valid_sessions,  \* ExtractFromSessions.main counter
    validFile,       \* lines of valid_session_urls.txt
    talk_urls,       \* talks of the current session
    j,               \* iterations of the talk loop started so far
    session_talks,   \* records accepted for the current session
    docs,            \* session_abstracts/<session id>.json
    saved,           \* the branch the save block took for rec
    page,            \* the document last inspected by a gate, or whose
                     \* markup a flat visit read
    waited,          \* milliseconds waited by the running gate
    passed,          \* the gate's passed flag
    html_after_bound,\* main's local html_after has been assigned
    gateKind,        \* "session" or "talk": the gate last entered
    gateState,       \* "Idle", "Waiting", "Cleared" or "Failed"
    gateMsg,         \* which message the gate printed when it ended
    failedSnap,      \* the *_FAILED_after_60s.html write was attempted
    stepErr,         \* error raised while polling in the step that ended the gate
    navWaitErr,      \* error raised by the wait for navigation in that step
    sticky,          \* every inspection of this gate was classified and none raised
    pause,           \* pause taken before the current visit (0: none)
    paceCounter,     \* the pacing counter as read for the current visit
    tempAll,         \* aps_summit_all_events_temp.csv
    tempHits,        \* aps_summit_superconducting_qubits_temp.csv
    outAll,          \* aps_summit_all_events.csv
    outHits,         \* aps_summit_superconducting_qubits.csv
    ioErr,           \* a file write of the last step raised
    browser,         \* the browser of the run: "none", "open" or "closed"
    page_ids,        \* session codes in the markup of the schedule page
    session_urls,    \* what extract_session_urls_from_page returned
    methods_run,     \* the extraction methods entered during the call
    xraise,          \* the unguarded step of the call that raised
    event_file,      \* event_urls.txt: whether it exists, and its lines
    hrefs,           \* event links on the schedule page WebScraper loads
    gated,           \* the schedule page was still a challenge page when
                     \* the wait for the challenge ended
    event_urls,      \* what collect_all_event_urls returned
    all_urls,        \* the list WebScraper.main iterates over
    cands,           \* lengths of the abstract candidates a page offers
    abstract,        \* the abstract extract_talk_fields returned
    populated,       \* the letters of which the site serves an identifier
                     \* among the first numbers
    texts,           \* the title and abstract handed to the classifier
    related,         \* what is_superconducting_qubit_related returned
    scroll_attempts, \* the counter of a lazy-load scroll loop
    scrolls          \* the passes that loop has made

loopVars == <<prog, pc, urls, i, rows, rec>>
sessVars == <<valid_sessions, validFile, talk_urls, j, session_talks, docs,
              saved>>
gateVars == <<page, waited, passed, html_after_bound, gateKind, gateState,
              gateMsg, failedSnap, stepErr, navWaitErr, sticky>>
paceVars == <<pause, paceCounter>>
fileVars == <<tempAll, tempHits, outAll, outHits>>
xfsVars == <<page_ids, session_urls, methods_run, xraise, event_file>>
wsdVars == <<hrefs, gated, populated, event_urls, all_urls>>
absVars == <<cands, abstract>>
clsVars == <<texts, related>>
scrVars == <<scroll_attempts, scrolls>>
pureVars == <<clsVars, scrVars>>
procVars == <<xfsVars, wsdVars, absVars, pureVars>>
vars == <<loopVars, sessVars, gateVars, paceVars, fileVars, ioErr, browser,
          procVars>>

(***************************************************************************)
(* Bounds of the model.                                                    *)
(***************************************************************************)
MaxUrls == 10
MaxSessions == 2
MaxTalks == 1
BatchLen == 101
FreeBatchUrls == 1

(***************************************************************************)
(* Program constants.                                                      *)
(***************************************************************************)
max_wait == 60000
check_interval == 3000
LongPause == 2000
ShortPause == 500
PaceEvery == 10
MinTitleLen == 10
PrefixBlocks == 2
MinAbstractLen == 50
MaxCandidateLen == 5000
MaxAbstractLen == 2000

\* max_scrolls of the two scroll loops, the number of unchanged readings
\* that ends the loop of collect_all_event_urls, and the passes followed
WsMaxScrolls == 50
XfsMaxScrolls == 30
StillScrolls == 3
MaxPasses == 60

CheckpointEvery == 100
Placeholder == "Just a moment..."

Min(a, b) == IF a < b THEN a ELSE b

(***************************************************************************)
(* Text: Python's `needle in text` and text.lower().                       *)
(***************************************************************************)
Lower(block) ==
    CASE block = "Security Challenge" -> "security challenge"
      [] block = "Ray ID: 7d1c" -> "ray id: 7d1c"
      [] block = "Error 404 Not Found" -> "error 404 not found"
      [] block = "Poster hall, Room 404" -> "poster hall, room 404"
      [] block = "Photon Storage in Diamond Spins"
            -> "photon storage in diamond spins"
      [] block = "Just a moment..." -> "just a moment..."
      [] block = "Checking your browser" -> "checking your browser"
      [] block = "Coherence Time Study of Fluxonium Qubits"
            -> "coherence time study of fluxonium qubits"
      [] block = "Spin Liquids in Kagome Magnets"
            -> "spin liquids in kagome magnets"
      [] OTHER -> block

SubstringsOf(block) ==
    CASE block = "Just a moment..." -> {"Just a moment"}
      [] block = "Checking your browser" -> {"Checking your browser"}
      [] block = "cf-browser-verification" -> {"cf-browser-verification"}
      [] block = "security challenge" -> {"challenge"}
      [] block = "challenge-platform" -> {"challenge", "challenge-platform"}
      [] block = "ray id: 7d1c" -> {"ray id"}
      [] block = "Error 404 Not Found" -> {"404"}
      [] block = "error 404 not found" -> {"404", "not found"}
      [] block = "Poster hall, Room 404" -> {"404"}
      [] block = "poster hall, room 404" -> {"404"}
      [] block = "coherence time study of fluxonium qubits"
            -> {"coherence time", "fluxonium"}
      [] OTHER -> {}

Contains(text, needle) ==
    \E k \in DOMAIN text : needle \in SubstringsOf(text[k])

LowerText(text) == [k \in DOMAIN text |-> Lower(text[k])]

Prefix2000(html) == SubSeq(html, 1, Min(Len(html), PrefixBlocks))

(***************************************************************************)
(* The documents the browser can show.  PageTitle is page.title(),         *)
(* PageHtml is page.content().                                             *)
(***************************************************************************)
Pages == {"content", "jam_title", "jam_html", "checking", "cfbv",
          "chal_title", "ray", "notfound", "untitled"}

PageTitle(p) ==
    CASE p = "content" -> <<"Coherence Time Study of Fluxonium Qubits">>
      [] p = "other" -> <<"Spin Liquids in Kagome Magnets">>
      [] p = "room404" -> <<"Photon Storage in Diamond Spins">>
      [] p = "jam_title" -> <<"Just a moment...">>
      [] p = "chal_title" -> <<"Security Challenge">>
      [] p = "untitled" -> <<>>
      [] p = "blank" -> <<>>
      [] OTHER -> <<"APS Summit">>

PageHtml(p) ==
    CASE p = "content" -> <<"talk body", "links">>
      [] p = "other" -> <<"talk body", "links">>
      [] p = "room404" -> <<"talk body", "Poster hall, Room 404">>
      [] p = "jam_title" -> <<"<title>", "spinner">>
      [] p = "jam_html" -> <<"Just a moment...", "spinner">>
      [] p = "checking" -> <<"spinner", "Checking your browser">>
      [] p = "cfbv" -> <<"spinner", "filler", "cf-browser-verification">>
      [] p = "chal_title" -> <<"<title>", "filler">>
      [] p = "ray" -> <<"talk body", "links", "Ray ID: 7d1c">>
      [] p = "notfound" -> <<"Error 404 Not Found">>
      [] p = "blank" -> <<>>
      [] OTHER -> <<"filler">>

PageH1(p) ==
    CASE p = "jam_html" -> "Just a moment..."
      [] p = "chal_title" -> "Verify"
      [] p = "ray" -> "Talk 7"
      [] OTHER -> ""

TitleTag(p) == IF PageTitle(p) = <<>> THEN "" ELSE PageTitle(p)[1]

(***************************************************************************)
(* guess_text over the selector list: h1 comes first, <title> later; the   *)
(* first selector with text wins.                                          *)
(***************************************************************************)
guess_text(p) == IF PageH1(p) # "" THEN PageH1(p) ELSE TitleTag(p)

extract_talk_fields(p, url) == [url |-> url, title |-> guess_text(p)]

NoRec == [url |-> <<>>, title |-> ""]

\* the validity test without the comparison with the placeholder
TitleAccepted_noPlaceholder(title) ==
    /\ title # ""
    /\ Len(title) > MinTitleLen

(***************************************************************************)
(* The validity test applied to rec before it is kept.                     *)
(***************************************************************************)
TitleAccepted(title) ==
    /\ title # ""
    /\ Len(title) > MinTitleLen
    /\ title # Placeholder

(***************************************************************************)
(* is_superconducting_qubit_related: a keyword occurs in the lower-cased   *)
(* title and abstract; the records of the model carry no abstract.         *)
(***************************************************************************)
SUPERCONDUCTING_QUBIT_KEYWORDS ==
    {"superconducting qubit", "transmon", "fluxonium", "josephson",
     "coherence time"}

is_superconducting_qubit_related(title) ==
    \E keyword \in SUPERCONDUCTING_QUBIT_KEYWORDS :
        Contains(<<Lower(title)>>, keyword)

\* df[df["is_superconducting_qubit"]]
Hits(recs) ==
    SelectSeq(recs, LAMBDA r : is_superconducting_qubit_related(r.title))

(***************************************************************************)
(* "404" in html or "not found" in html.lower()                            *)
(***************************************************************************)
IsNotFound(p) ==
    \/ Contains(PageHtml(p), "404")
    \/ Contains(LowerText(PageHtml(p)), "not found")

(***************************************************************************)
(* Exceptions raised by the browser, by what str(e).lower() contains.      *)
(***************************************************************************)
ErrKinds == {"nav", "timeout", "closed", "crash"}

MsgSubstrings(e) ==
    CASE e = "nav" -> {"navigation", "context was destroyed", "context"}
      [] e = "timeout" -> {"timeout"}
      [] e = "closed" -> {"context"}
      [] e = "neterr" -> {"net::ERR"}
      [] OTHER -> {}

MsgHas(e, needle) == needle \in MsgSubstrings(e)

(***************************************************************************)
(* The classification step of both gates of ExtractFromSessions: the       *)
(* first matching variant wins, "None" when no signature is present.       *)
(***************************************************************************)
Classify(p) ==
    LET title == PageTitle(p)
        html == PageHtml(p)
    IN  IF \/ Contains(title, "Just a moment")
           \/ Contains(Prefix2000(html), "Just a moment")
        THEN "Just a moment (standard challenge)"
        ELSE IF Contains(Prefix2000(html), "Checking your browser")
        THEN "Checking your browser (verification)"
        ELSE IF Contains(LowerText(html), "cf-browser-verification")
        THEN "Browser verification (cf-browser-verification)"
        ELSE IF \/ Contains(LowerText(title), "challenge")
                \/ Contains(LowerText(html), "challenge-platform")
        THEN "Challenge platform"
        ELSE IF \/ Contains(LowerText(html), "ray id")
                \/ Contains(LowerText(html), "cf-ray")
        THEN IF \/ Contains(LowerText(html), "access denied")
                \/ Contains(LowerText(html), "blocked")
             THEN "Access denied / Blocked"
             ELSE "Cloudflare detected (may not be blocking)"
        ELSE "None"

is_cloudflare(p) == Classify(p) # "None"

(***************************************************************************)
(* The test of every poll, and of the session gate's final check.          *)
(***************************************************************************)
still_blocked(p) ==
    \/ Contains(PageTitle(p), "Just a moment")
    \/ Contains(Prefix2000(PageHtml(p)), "Just a moment")
    \/ Contains(Prefix2000(PageHtml(p)), "Checking your browser")

(***************************************************************************)
(* The test of the talk gate's final check.                                *)
(***************************************************************************)
still_cloudflare_talk(p) ==
    \/ still_blocked(p)
    \/ Contains(LowerText(PageTitle(p)), "challenge")

(***************************************************************************)
(* The test after a navigation error caught around the whole talk wait.    *)
(***************************************************************************)
blocked_after_navigation(p) ==
    \/ Contains(PageTitle(p), "Just a moment")
    \/ Contains(Prefix2000(PageHtml(p)), "Just a moment")

(***************************************************************************)
(* The title test of the flat loops before wait_for_function.              *)
(***************************************************************************)
flat_challenge(p) ==
    \/ Contains(PageTitle(p), "Just a moment")
    \/ Contains(LowerText(PageTitle(p)), "challenge")

(***************************************************************************)
(* URLs are sequences of path segments under https://summit.aps.org.       *)
(***************************************************************************)
Last(url) == url[Len(url)]

FlatUrl(k) == <<"smt", "2026", "events", ToString(k)>>

\* lines of event_urls.txt as read by load_session_urls: both URL forms of
\* one session, then a line that is no session page
SessionUrl(k) ==
    CASE k % 3 = 1 -> <<"smt", "2026", "events", "MAR-A01">>
      [] k % 3 = 2 -> <<"events", "MAR-A01">>
      [] OTHER -> <<"schedule">>

\* session codes, in ascending order of their text
SessionIds == <<"MAR-A01", "MAR-B02">>

\* the fallback of load_session_urls when event_urls.txt is missing: both
\* forms of every code, sorted(set(...)), so every /events/ form comes
\* before every /smt/2026/events/ form; the range of codes is scaled down
\* to the first one
FallbackSessionUrls ==
    LET ids == SubSeq(SessionIds, 1, 1)
    IN  [k \in DOMAIN ids |-> <<"events", ids[k]>>]
          \o [k \in DOMAIN ids |-> <<"smt", "2026", "events", ids[k]>>]

\* every address a session loop can be given
SessionUrls ==
    {SessionUrl(k) : k \in 1..3}
        \cup {FallbackSessionUrls[k] : k \in DOMAIN FallbackSessionUrls}

\* a long list of talk pages; all but the first FreeBatchUrls of them are
\* served without failure, alternately a keyword talk and another talk
BatchUrl(k) == <<"smt", "2026", "events", "T" \o ToString(k)>>

Steady(url) ==
    \E k \in (FreeBatchUrls + 1)..BatchLen : url = BatchUrl(k)

SteadyPage(url) ==
    LET k == CHOOSE n \in 1..BatchLen : url = BatchUrl(n)
    IN  IF k % 2 = 1 THEN "content" ELSE "other"

FlatUrls == {FlatUrl(k) : k \in 1..MaxUrls}
               \cup {BatchUrl(k) : k \in 1..BatchLen}

FlatSeeds == {[k \in 1..n |-> FlatUrl(k)] : n \in {0, MaxUrls}}
               \cup {[k \in 1..BatchLen |-> BatchUrl(k)]}

\* event_urls.txt with a repeated line; load_urls keeps every line
RepeatedSeed == <<FlatUrl(1), FlatUrl(2), FlatUrl(1)>>

SessionSeeds == {[k \in 1..n |-> SessionUrl(k)] : n \in {0, MaxSessions}}

\* the lists main iterates over: lines of a file in ExtractAbstracts, a
\* sorted set in WebScraper
Seeds(pr) ==
    CASE pr = "EA" -> FlatSeeds \cup {RepeatedSeed}
      [] pr = "WS" -> FlatSeeds
      [] pr = "EFS" -> SessionSeeds
      [] pr = "XFS" -> {<<>>}
      [] pr = "WSD" -> {<<>>}
      [] pr = "ATF" -> {<<>>}
      [] pr = "CLS" -> {<<>>}
      [] pr = "WSC" -> {<<>>}
      [] pr = "XSC" -> {<<>>}


SchedulePageIds == {SessionIds[k] : k \in DOMAIN SessionIds}

\* session_url = f"https://summit.aps.org/events/{session_id}"
CanonicalSessionUrl(session_id) == <<"events", session_id>>

\* sorted(session_urls) of a set of canonical session URLs
SortedSessionUrls(ids) ==
    LET kept == SelectSeq(SessionIds, LAMBDA id : id \in ids)
    IN  [k \in DOMAIN kept |-> CanonicalSessionUrl(kept[k])]

JsonFiles == {Last(u) : u \in SessionUrls}

EmptyDoc == [talks |-> <<>>, corrupt |-> FALSE]

(***************************************************************************)
(* The pacing rule at the head of each per-URL loop.                       *)
(***************************************************************************)
PacingCounter(idx) ==
    CASE prog = "EA" -> Len(rows)
      [] prog = "WS" -> idx
      [] prog = "EFS" -> valid_sessions

PacingPause(idx) ==
    LET c == PacingCounter(idx)
    IN  CASE prog = "EA" ->
               IF c > 0 /\ c % PaceEvery = 0 THEN LongPause
               ELSE IF c > 0 THEN ShortPause ELSE 0
          [] prog = "WS" ->
               IF c > 1 /\ c % PaceEvery = 0 THEN LongPause
               ELSE IF c > 1 THEN ShortPause ELSE 0
          [] prog = "EFS" ->
               IF c > 0 /\ c % PaceEvery = 0 THEN LongPause
               ELSE ShortPause

\* the pause taken and the counter read when the pacing sleep returns
Pace(idx) ==
    /\ pause' = PacingPause(idx)
    /\ paceCounter' = PacingCounter(idx)

\* event_urls.txt before ExtractFilteredSessions has written it
NoFile == [exists |-> FALSE, lines |-> <<>>]

\* the states of event_urls.txt a tool that reads it can start from
EventFiles(pr) ==
    IF pr \in {"EA", "EFS"}
    THEN {NoFile} \cup {[exists |-> TRUE, lines |-> s] : s \in Seeds(pr)}
    ELSE {NoFile}

\* ExtractAbstracts.load_urls: the lines, or nothing when the file is missing
load_urls(f) == IF f.exists THEN f.lines ELSE <<>>

load_session_urls_noFallback(f) == f.lines

\* ExtractFromSessions.load_session_urls: the lines, or the generated list
load_session_urls(f) == IF f.exists THEN f.lines ELSE FallbackSessionUrls

\* the list main iterates over
Loaded(pr, f, seed) ==
    CASE pr = "EA" -> load_urls(f)
      [] pr = "EFS" -> load_session_urls(f)
      [] OTHER -> seed

\* ExtractAbstracts returns on an empty list before a browser is launched;
\* the other tools launch it first
Launched(pr, us) == IF pr = "EA" /\ us = <<>> THEN "none" ELSE "open"

(***************************************************************************)
(* WebScraper: collect_all_event_urls and the ordering of its result at    *)
(* the head of main (prog "WSD"; the loop over a list is prog "WS").  The  *)
(* identifier space MAR-<letter><number> is scaled down to two letters and *)
(* two numbers.                                                            *)
(***************************************************************************)
EventLetters == <<"A", "B">>

EventNums == <<"01", "02">>

EventId(letter, num) == "MAR-" \o letter \o num

EventIds ==
    {EventId(EventLetters[a], EventNums[b]) :
        a \in DOMAIN EventLetters, b \in DOMAIN EventNums}

\* url = f"https://summit.aps.org/smt/2026/events/{event_id}"
EventUrl(event_id) == <<"smt", "2026", "events", event_id>>

\* the same page as linked with a trailing slash
SlashUrl(event_id) == <<"smt", "2026", "events", event_id, "">>

\* an event page whose address carries no MAR code
KeynoteUrl == <<"smt", "2026", "events", "keynote">>

\* link.href of the anchors that pass the filter of Strategy 1
RawHrefs == {EventUrl("MAR-A01"), SlashUrl("MAR-A01"), KeynoteUrl}

\* every URL of the model in ascending order of its text, the order of
\* sorted(): "MAR-A01" < "MAR-A01/" < "MAR-A02" < ... < "keynote"
EventUrlOrder ==
    <<EventUrl("MAR-A01"), SlashUrl("MAR-A01"), EventUrl("MAR-A02"),
      EventUrl("MAR-B01"), EventUrl("MAR-B02"), KeynoteUrl>>

Rank(u) == CHOOSE k \in DOMAIN EventUrlOrder : EventUrlOrder[k] = u

\* sorted(seen_urls)
SortedUrls(S) == SelectSeq(EventUrlOrder, LAMBDA u : u \in S)

\* the identifier an address denotes
Identifier(u) == u[4]

\* Strategy 1 (and the selector loop): the hrefs as they stand
Strategy1(hs) == hs

\* Strategies 4 and 5: the codes matched in the hrefs, each rebuilt as
\* https://summit.aps.org/smt/2026/events/{event_id}
Strategy5(hs) ==
    {EventUrl(Identifier(h)) : h \in {x \in hs : Identifier(x) \in EventIds}}

\* the letters whose first numbers are requested in the sample
\* (sample_ids[:50]), scaled down to the first letter
SampledLetters == {EventLetters[1]}

Strategy6_activeOnly(active) ==
    {EventUrl(EventId(l, EventNums[b])) :
        l \in active, b \in DOMAIN EventNums}

\* Strategy 6: the whole number range of the letters the sample found
\* active, or of every letter when it found none or raised
Strategy6(active) ==
    LET letters == IF active = {}
                   THEN {EventLetters[a] : a \in DOMAIN EventLetters}
                   ELSE active
    IN  {EventUrl(EventId(l, EventNums[b])) :
            l \in letters, b \in DOMAIN EventNums}

\* seen_urls when the function returns; rebuilt is FALSE when the
\* page.evaluate calls of Strategies 4 and 5 raised inside their try
SeenUrls(hs, rebuilt, active) ==
    Strategy1(hs) \cup (IF rebuilt THEN Strategy5(hs) ELSE {})
        \cup Strategy6(active)

(***************************************************************************)
(* The abstract cascade of extract_talk_fields (prog "ATF").  A text is    *)
(* modelled by its length; a page offers each strategy at most one         *)
(* candidate, 0 standing for none.  s3b is the text the regex of           *)
(* WebScraper's Strategy 3 captures in the parent's parent.                *)
(***************************************************************************)
CandidateLengths == {0, 30, 50, 500, 5000, 6000}

CandidatePages ==
    {p \in [tool : {"EA", "WS"}, s1 : CandidateLengths,
            s2 : CandidateLengths, s3 : CandidateLengths,
            s3b : CandidateLengths, s4 : CandidateLengths] :
        p.tool = "EA" => p.s3b = 0}

NoCandidates ==
    [tool |-> "EA", s1 |-> 0, s2 |-> 0, s3 |-> 0, s3b |-> 0, s4 |-> 0]

\* abstract = "": no strategy produced one
NoAbstract == [from |-> "none", len |-> 0]

\* if txt and len(txt) > 50 and len(txt) < 5000
InBounds(n) == n > MinAbstractLen /\ n < MaxCandidateLen

\* if len(abstract) > 2000: abstract = abstract[:2000]
Truncate(n) == Min(n, MaxAbstractLen)

Strategy1Abstract(c) ==
    IF InBounds(c.s1) THEN [from |-> "s1", len |-> c.s1] ELSE NoAbstract

Strategy2Abstract(c) ==
    IF InBounds(c.s2) THEN [from |-> "s2", len |-> c.s2] ELSE NoAbstract

\* the sibling of the label when longer than 50; in WebScraper, failing
\* that, the text captured in the parent's parent, cut to 2000
Strategy3Abstract(c) ==
    IF c.s3 > MinAbstractLen THEN [from |-> "s3", len |-> c.s3]
    ELSE IF c.tool = "WS" /\ c.s3b > 0
    THEN [from |-> "s3b", len |-> Truncate(c.s3b)]
    ELSE NoAbstract

\* the first pattern that matches, stripped and cut to 2000
Strategy4Abstract(c) ==
    IF c.s4 > 0 THEN [from |-> "s4", len |-> Truncate(c.s4)] ELSE NoAbstract

\* the cascade without the `if not abstract` guards: every strategy runs
\* and a later one that accepts a candidate overwrites the abstract
AbstractOf_lastWins(c) ==
    IF Strategy4Abstract(c) # NoAbstract THEN Strategy4Abstract(c)
    ELSE IF Strategy3Abstract(c) # NoAbstract THEN Strategy3Abstract(c)
    ELSE IF Strategy2Abstract(c) # NoAbstract THEN Strategy2Abstract(c)
    ELSE Strategy1Abstract(c)

\* each strategy runs only `if not abstract`
AbstractOf(c) ==
    IF Strategy1Abstract(c) # NoAbstract THEN Strategy1Abstract(c)
    ELSE IF Strategy2Abstract(c) # NoAbstract THEN Strategy2Abstract(c)
    ELSE IF Strategy3Abstract(c) # NoAbstract THEN Strategy3Abstract(c)
    ELSE Strategy4Abstract(c)

ExtractAbstract ==
    /\ prog = "ATF"
    /\ pc = "fields"
    /\ abstract' = AbstractOf(cands)
    /\ pc' = "extracted"
    /\ ioErr' = FALSE
    /\ UNCHANGED <<prog, urls, i, rows, rec, sessVars, gateVars, paceVars,
                   fileVars, browser, xfsVars, wsdVars, cands, pureVars>>

(***************************************************************************)
(* is_superconducting_qubit_related as a function of two texts (prog       *)
(* "CLS").  Here a text is a sequence of characters, so that the join of   *)
(* title and abstract, the lower-casing and the search of the compiled     *)
(* alternation are computed character by character.  The vocabulary is     *)
(* scaled down to two of its terms.                                        *)
(***************************************************************************)
LowerChar(c) ==
    CASE c = "T" -> "t"
      [] c = "C" -> "c"
      [] c = "Z" -> "z"
      [] c = "G" -> "g"
      [] c = "A" -> "a"
      [] c = "E" -> "e"
      [] c = "X" -> "x"
      [] OTHER -> c

\* str.lower()
LowerChars(text) == [k \in DOMAIN text |-> LowerChar(text[k])]

\* "t1" and "cz gate", in the order of the list
KeywordChars == << <<"t", "1">>, <<"c", "z", " ", "g", "a", "t", "e">> >>

\* titles and abstracts: empty, a term in either case, a term inside a word,
\* the two halves of a term, and texts without any term
ClassifierTexts ==
    { <<>>,
      <<"t", "1">>,
      <<"T", "1">>,
      <<"x", "t", "1", "x">>,
      <<"c", "z">>,
      <<"C", "Z">>,
      <<"g", "a", "t", "e">>,
      <<"G", "a", "t", "e", " ", "x">>,
      <<"c", "z", " ", "g", "a", "t", "e">>,
      <<"t", " ", "1">>,
      <<"x">> }

\* combined_text = f"{title} {abstract}".lower()
combined_text(title, abstract_text) ==
    LowerChars(title \o <<" ">> \o abstract_text)

\* one escaped keyword matches at position p, letters compared without
\* regard to case (re.IGNORECASE)
MatchesAt(keyword, text, p) ==
    /\ p + Len(keyword) - 1 <= Len(text)
    /\ \A k \in DOMAIN keyword :
          LowerChar(text[p + k - 1]) = LowerChar(keyword[k])

\* re.match: the alternation tried at the first position only
pattern_search_anchored(text) ==
    IF \E a \in DOMAIN KeywordChars : MatchesAt(KeywordChars[a], text, 1)
    THEN 1 ELSE 0

\* pattern.search: the leftmost position where an alternative matches,
\* 0 standing for None
pattern_search(text) ==
    LET hits == {p \in 1..Len(text) :
                   \E a \in DOMAIN KeywordChars :
                      MatchesAt(KeywordChars[a], text, p)}
    IN  IF hits = {} THEN 0
        ELSE CHOOSE p \in hits : \A q \in hits : p <= q

\* return bool(pattern.search(combined_text))
ClassifyTexts ==
    /\ prog = "CLS"
    /\ pc = "classify"
    /\ related' = (pattern_search(combined_text(texts.title,
                                                texts.abstract)) # 0)
    /\ pc' = "classified"
    /\ ioErr' = FALSE
    /\ UNCHANGED <<prog, urls, i, rows, rec, sessVars, gateVars, paceVars,
                   fileVars, browser, xfsVars, wsdVars, absVars, texts,
                   scrVars>>

(***************************************************************************)
(* The lazy-load scroll loops of collect_all_event_urls (prog "WSC") and   *)
(* of extract_session_urls_from_page (prog "XSC").  The heights the page   *)
(* reports are any sequence: each reading is either equal to last_height   *)
(* or not.                                                                 *)
(***************************************************************************)
max_scrolls(pr) == IF pr = "WSC" THEN WsMaxScrolls ELSE XfsMaxScrolls

\* one pass of the body of `while scroll_attempts < max_scrolls`
ScrollPass ==
    /\ prog \in {"WSC", "XSC"}
    /\ pc = "scroll"
    /\ scroll_attempts < max_scrolls(prog)
    /\ scrolls < MaxPasses
    /\ scrolls' = scrolls + 1
    /\ \E same \in BOOLEAN, same_again \in BOOLEAN :
          IF prog = "WSC"
          THEN /\ scroll_attempts' = IF same THEN scroll_attempts + 1 ELSE 0
               /\ pc' = IF scroll_attempts' >= StillScrolls
                        THEN "scrolled" ELSE "scroll"
          ELSE IF same /\ same_again
               THEN pc' = "scrolled" /\ UNCHANGED scroll_attempts
               ELSE pc' = "scroll" /\ scroll_attempts' = scroll_attempts + 1
    /\ ioErr' = FALSE
    /\ UNCHANGED <<prog, urls, i, rows, rec, sessVars, gateVars, paceVars,
                   fileVars, browser, xfsVars, wsdVars, absVars, clsVars>>

\* the condition of the while is false
ScrollExit ==
    /\ prog \in {"WSC", "XSC"}
    /\ pc = "scroll"
    /\ ~(scroll_attempts < max_scrolls(prog))
    /\ pc' = "scrolled"
    /\ ioErr' = FALSE
    /\ UNCHANGED <<prog, urls, i, rows, rec, sessVars, gateVars, paceVars,
                   fileVars, browser, xfsVars, wsdVars, absVars, pureVars>>

\* where main stands once the browser is acquired: ExtractFromSessions
\* still has its output directories to create before the guarded loop
Entry(pr) ==
    CASE pr = "EFS" -> "setup"
      [] pr = "XFS" -> "extract"
      [] pr = "WSD" -> "collect"
      [] pr = "ATF" -> "fields"
      [] pr = "CLS" -> "classify"
      [] pr = "WSC" -> "scroll"
      [] pr = "XSC" -> "scroll"
      [] OTHER -> "start"

Init ==
    /\ prog \in {"EA", "WS", "EFS", "XFS", "WSD", "ATF", "CLS", "WSC", "XSC"}
    /\ event_file \in EventFiles(prog)
    /\ \E seed \in Seeds(prog) : urls = Loaded(prog, event_file, seed)
    /\ session_urls = <<>>
    /\ methods_run = {}
    /\ xraise = "none"
    /\ gated \in IF prog \in {"WSD", "XFS"} THEN BOOLEAN ELSE {FALSE}
    /\ page_ids \in IF prog = "XFS" /\ ~gated
                    THEN SUBSET SchedulePageIds ELSE {{}}
    /\ hrefs \in IF prog = "WSD" /\ ~gated THEN SUBSET RawHrefs ELSE {{}}
    /\ populated \in IF prog = "WSD"
                     THEN SUBSET {EventLetters[a] : a \in DOMAIN EventLetters}
                     ELSE {{}}
    /\ event_urls = <<>>
    /\ all_urls = <<>>
    /\ cands \in IF prog = "ATF" THEN CandidatePages ELSE {NoCandidates}
    /\ abstract = NoAbstract
    /\ texts \in IF prog = "CLS"
                 THEN [title : ClassifierTexts, abstract : ClassifierTexts]
                 ELSE {[title |-> <<>>, abstract |-> <<>>]}
    /\ related = FALSE
    /\ scroll_attempts = 0
    /\ scrolls = 0
    /\ browser = Launched(prog, urls)
    /\ pc = Entry(prog)
    /\ i = 0
    /\ rows = <<>>
    /\ rec = NoRec
    /\ valid_sessions = 0
    /\ validFile = <<>>
    /\ talk_urls = <<>>
    /\ j = 0
    /\ session_talks = <<>>
    /\ docs = [f \in JsonFiles |-> EmptyDoc]
    /\ saved = "none"
    /\ page = "blank"
    /\ waited = 0
    /\ passed = FALSE
    /\ html_after_bound = FALSE
    /\ gateKind = "none"
    /\ gateState = "Idle"
    /\ gateMsg = "none"
    /\ failedSnap = FALSE
    /\ stepErr = "none"
    /\ navWaitErr = "none"
    /\ sticky = FALSE
    /\ pause = 0
    /\ paceCounter = 0
    /\ tempAll = <<>>
    /\ tempHits = <<>>
    /\ outAll = <<>>
    /\ outHits = <<>>
    /\ ioErr = FALSE

(***************************************************************************)
(* The flat loops: ExtractAbstracts.main and WebScraper.main.              *)
(***************************************************************************)
GotoErrs == {"timeout", "neterr", "crash"}

\* page.goto raised e: the URL is skipped at once
GotoSkips(pr, e) ==
    \/ MsgHas(e, "404")
    \/ MsgHas(e, "not found")
    \/ MsgHas(e, "timeout")
    \/ (pr = "WS" /\ MsgHas(e, "net::ERR"))

\* whether the page was loaded, over every outcome of page.goto and of the
\* second page.goto WebScraper tries after another kind of error
GotoOutcomes(pr) ==
    {gotoErr = "none" \/ (pr = "WS" /\ ~GotoSkips(pr, gotoErr) /\ retryOk) :
        gotoErr \in {"none"} \cup GotoErrs, retryOk \in BOOLEAN}

\* whether the title gate lets the visit go on, over every title first
\* seen, every outcome of wait_for_function and every title seen after it
FlatGateOutcomes ==
    {~flat_challenge(p1)
       \/ (wfOk /\ ~Contains(PageTitle(p2), "Just a moment")) :
        p1 \in Pages, wfOk \in BOOLEAN, p2 \in Pages}

\* the documents a talk URL can show once loaded: those of Pages and a
\* talk page whose body names a room numbered 404
FlatPages == Pages \cup {"room404"}

\* one pass of the loop body: html is the document page.content() read
\* ("blank" when the pass ended before), rec the record extracted, NoRec
\* when a `continue` is taken before extract_talk_fields
FlatVisitResults(pr, url) ==
    IF Steady(url)
    THEN {[html |-> SteadyPage(url),
           rec |-> extract_talk_fields(SteadyPage(url), url)]}
    ELSE {IF loaded /\ gateOk /\ ~readErr
          THEN [html |-> p3,
                rec |-> IF IsNotFound(p3) THEN NoRec
                        ELSE extract_talk_fields(p3, url)]
          ELSE [html |-> "blank", rec |-> NoRec] :
             loaded \in GotoOutcomes(pr), gateOk \in FlatGateOutcomes,
             readErr \in BOOLEAN, p3 \in FlatPages}

\* FlatVisitResults tabulated: it depends on the tool and the URL only
FlatVisitTable ==
    [pr \in {"EA", "WS"} |->
        [u \in FlatUrls |-> FlatVisitResults(pr, u)]]

\* "Save incrementally every 100 events": whether the checkpoint block is
\* entered once extract_talk_fields has returned, with idx the number of
\* the visit and n the new len(rows)
CheckpointDue(pr, idx, n) ==
    CASE pr = "EA" -> n > 0 /\ n % CheckpointEvery = 0
      [] pr = "WS" -> idx % CheckpointEvery = 0

\* the temp files after the checkpoint block; in WebScraper the second
\* file is written only when rows is not empty
Checkpoint(pr, rs, io) ==
    /\ ioErr' = (io = "fails")
    /\ tempAll' = IF io = "ok" THEN rs ELSE tempAll
    /\ tempHits' = IF io = "ok" /\ (pr = "EA" \/ Len(rs) > 0)
                   THEN Hits(rs) ELSE tempHits

FlatVisit ==
    /\ prog \in {"EA", "WS"}
    /\ pc = "start"
    /\ i < Len(urls)
    /\ i' = i + 1
    /\ Pace(i + 1)
    /\ \E v \in FlatVisitTable[prog][urls[i + 1]] :
          LET r == v.rec
              rs == IF r # NoRec /\ TitleAccepted(r.title)
                    THEN Append(rows, r) ELSE rows
          IN  /\ rec' = r
              /\ page' = v.html
              /\ rows' = rs
              /\ IF r # NoRec /\ CheckpointDue(prog, i + 1, Len(rs))
                 THEN \E io \in {"ok", "fails"} : Checkpoint(prog, rs, io)
                 ELSE UNCHANGED <<tempAll, tempHits>> /\ ioErr' = FALSE
    /\ UNCHANGED <<prog, pc, urls, sessVars, waited, passed,
                   html_after_bound, gateKind, gateState, gateMsg,
                   failedSnap, stepErr, navWaitErr, sticky, outAll, outHits,
                   browser, procVars>>

\* WebScraper takes its pacing sleep before the try block of the pass: a
\* sleep that raises (page or browser gone) leaves the loop and main
PacingAborts ==
    /\ prog = "WS"
    /\ pc = "start"
    /\ i < Len(urls)
    /\ i + 1 > 1
    /\ pc' = "crashed"
    /\ ioErr' = FALSE
    /\ UNCHANGED <<prog, urls, i, rows, rec, sessVars, gateVars, paceVars,
                   fileVars, browser, procVars>>

FlatPass == FlatVisit \/ PacingAborts

(***************************************************************************)
(* ExtractFromSessions: the session gate of extract_talks_from_session.    *)
(***************************************************************************)
MaybeErr == {"none"} \cup ErrKinds

\* the loop test taken one poll too far
WaitBudgetLeft_inclusive(w) == w <= max_wait

\* `while waited < max_wait`
WaitBudgetLeft(w) == w < max_wait

\* a gate starts: the locals of the wait are fresh
GateEnter(kind) ==
    /\ gateKind' = kind
    /\ waited' = 0
    /\ passed' = FALSE
    /\ failedSnap' = FALSE
    /\ stepErr' = "none"
    /\ navWaitErr' = "none"

\* control has left the gate: its outcome and its locals are dead
GateLeave ==
    /\ page' = "blank"
    /\ waited' = 0
    /\ passed' = FALSE
    /\ gateKind' = "none"
    /\ gateState' = "Idle"
    /\ gateMsg' = "none"
    /\ failedSnap' = FALSE
    /\ stepErr' = "none"
    /\ navWaitErr' = "none"
    /\ sticky' = FALSE
    /\ UNCHANGED html_after_bound

\* the first inspection after navigation: the classification decides
\* whether the wait is entered
GateClassify(p, clearedPc, waitPc) ==
    /\ page' = p
    /\ sticky' = is_cloudflare(p)
    /\ IF is_cloudflare(p)
       THEN /\ gateState' = "Waiting"
            /\ gateMsg' = "detected"
            /\ pc' = waitPc
       ELSE /\ gateState' = "Cleared"
            /\ gateMsg' = "not_challenged"
            /\ pc' = clearedPc

\* navigation or the first reads raised: no gate is run for this URL
GateSkipped(nextPc) ==
    /\ page' = "blank"
    /\ sticky' = FALSE
    /\ gateState' = "Idle"
    /\ gateMsg' = "none"
    /\ pc' = nextPc

SessionVisit ==
    /\ prog = "EFS"
    /\ pc = "start"
    /\ i < Len(urls)
    /\ i' = i + 1
    /\ Pace(i + 1)
    /\ GateEnter("session")
    /\ \/ GateSkipped("start")
       \/ \E p \in Pages : GateClassify(p, "s_extract", "s_wait")
    \* talk_urls, j and session_talks of the previous pass are dead: each is
    \* assigned again before it is next read
    /\ talk_urls' = <<>>
    /\ j' = 0
    /\ session_talks' = <<>>
    /\ rec' = NoRec
    /\ saved' = "none"
    /\ UNCHANGED <<prog, urls, rows, valid_sessions, validFile, docs,
                   html_after_bound>>
    /\ UNCHANGED <<fileVars, browser, procVars>>
    /\ ioErr' = FALSE

\* one outcome of a step of the session gate
SessionOutcome(st, msg, pg, pss, err, snap, allCf, slept) ==
    [state |-> st, msg |-> msg, page |-> pg, passed |-> pss, slept |-> slept,
     stepErr |-> IF st = "Waiting" THEN "none" ELSE err,
     navWaitErr |-> "none", failedSnap |-> snap,
     sticky |-> (allCf /\ err = "none"), bound |-> FALSE]

\* the body of `while waited < max_wait` in extract_talks_from_session:
\* the sleep at the loop head raises (waited is not advanced), a read of
\* the page raises, the page is inspected, or the settle sleep that
\* follows `passed = True` raises; every error is caught by the `except`
\* around the wait, which returns []
SessionPollOutcomes(pg) ==
    {SessionOutcome("Failed", "wait_error", pg, FALSE, e, FALSE, TRUE, slept) :
        e \in ErrKinds, slept \in BOOLEAN}
    \cup
    {IF still_blocked(p)
     THEN SessionOutcome("Waiting", "detected", p, FALSE, "none", FALSE,
                         is_cloudflare(p), TRUE)
     ELSE SessionOutcome("Cleared", "passed_poll", p, TRUE, "none", FALSE,
                         is_cloudflare(p), TRUE) :
        p \in Pages}
    \cup
    {SessionOutcome("Failed", "wait_error", p, TRUE, e, FALSE,
                    is_cloudflare(p), TRUE) :
        p \in {q \in Pages : ~still_blocked(q)}, e \in ErrKinds}

\* the final check after the budget is spent
SessionFinalOutcomes(pg) ==
    {SessionOutcome("Failed", "wait_error", pg, FALSE, e, FALSE, TRUE, FALSE) :
        e \in ErrKinds}
    \cup
    {IF still_blocked(p)
     THEN SessionOutcome("Failed", "failed_budget", p, FALSE, "none", TRUE,
                         is_cloudflare(p), FALSE)
     ELSE SessionOutcome("Cleared", "passed_final", p, FALSE, "none", FALSE,
                         is_cloudflare(p), FALSE) :
        p \in Pages}

\* both tabulated by the page last inspected
SessionPollTable ==
    [pg \in Pages \cup {"blank"} |-> SessionPollOutcomes(pg)]

SessionFinalTable ==
    [pg \in Pages \cup {"blank"} |-> SessionFinalOutcomes(pg)]

\* the gate's variables after a step with outcome o
GateApply(o, clearedPc, waitPc, failedPc) ==
    /\ gateState' = o.state
    /\ gateMsg' = o.msg
    /\ page' = o.page
    /\ passed' = o.passed
    /\ stepErr' = o.stepErr
    /\ navWaitErr' = o.navWaitErr
    /\ failedSnap' = o.failedSnap
    /\ html_after_bound' = (html_after_bound \/ o.bound)
    /\ sticky' = (sticky /\ o.sticky)
    /\ pc' = CASE o.state = "Cleared" -> clearedPc
              [] o.state = "Waiting" -> waitPc
              [] o.state = "Failed" -> failedPc

SessionPoll ==
    /\ pc = "s_wait"
    /\ WaitBudgetLeft(waited)
    /\ \E o \in SessionPollTable[page] :
          /\ waited' = IF o.slept THEN waited + check_interval ELSE waited
          /\ GateApply(o, "s_extract", "s_wait", "start")
    /\ UNCHANGED <<prog, urls, i, rows, rec, sessVars, gateKind, paceVars>>
    /\ UNCHANGED <<fileVars, browser, procVars>>
    /\ ioErr' = FALSE

SessionFinal ==
    /\ pc = "s_wait"
    /\ ~WaitBudgetLeft(waited)
    /\ \E o \in SessionFinalTable[page] :
          GateApply(o, "s_extract", "s_wait", "start")
    /\ UNCHANGED <<prog, urls, i, rows, rec, sessVars, gateKind, waited,
                   paceVars>>
    /\ UNCHANGED <<fileVars, browser, procVars>>
    /\ ioErr' = FALSE

(***************************************************************************)
(* After the gate: the 404 test, the session id and the talk links; then   *)
(* main's handling of the returned list.                                   *)
(***************************************************************************)
IsSessionCode(seg) == seg \in {"MAR-A01"}

\* re.search(r'/([A-Z]{3}-[A-Z]\d{2})', session_url): "" when no match
session_match(url) ==
    IF \E k \in DOMAIN url : IsSessionCode(url[k])
    THEN url[CHOOSE k \in DOMAIN url :
                /\ IsSessionCode(url[k])
                /\ \A m \in DOMAIN url : IsSessionCode(url[m]) => k <= m]
    ELSE ""

TalkUrl(sid, n) == <<"events", sid, ToString(n)>>

\* sorted(set(talk_urls)) over the talk numbers the page links to
TalkLists(sid) ==
    {[k \in 1..Cardinality(S) |->
        TalkUrl(sid, CHOOSE n \in S : Cardinality({m \in S : m < n}) = k - 1)] :
        S \in SUBSET (1..MaxTalks)}

\* the list extract_talks_from_session returns once the gate is behind
SessionExtractResults(session_url) ==
    {IF readErr \/ IsNotFound(p) \/ session_match(session_url) = ""
     THEN <<>>
     ELSE t :
        readErr \in BOOLEAN, p \in Pages,
        t \in TalkLists(session_match(session_url))}

SessionExtractTable ==
    [u \in SessionUrls |-> SessionExtractResults(u)]

save_session_url_skipped(file, url) == file

\* save_session_url: the URL is appended to valid_session_urls.txt
save_session_url(file, url) == Append(file, url)

\* the list is returned; a session with talks is counted and marked before
\* the talk loop starts, and a marker write that raises sends the session
\* to the except of the session loop
SessionExtract ==
    /\ pc = "s_extract"
    /\ \E found \in SessionExtractTable[urls[i]], io \in {"ok", "fails"} :
              /\ talk_urls' = found
              /\ CASE found = <<>> ->
                        /\ pc' = "start"
                        /\ ioErr' = FALSE
                        /\ UNCHANGED <<valid_sessions, validFile, j,
                                       session_talks>>
                   [] found # <<>> /\ io = "ok" ->
                        /\ valid_sessions' = valid_sessions + 1
                        /\ validFile' = save_session_url(validFile, urls[i])
                        /\ session_talks' = <<>>
                        /\ j' = 0
                        /\ pc' = "t_head"
                        /\ ioErr' = FALSE
                   [] OTHER ->
                        /\ valid_sessions' = valid_sessions + 1
                        /\ pc' = "start"
                        /\ ioErr' = TRUE
                        /\ UNCHANGED <<validFile, j, session_talks>>
    /\ GateLeave
    /\ UNCHANGED <<prog, urls, i, rows, rec, docs, saved, paceVars>>
    /\ UNCHANGED <<fileVars, browser, procVars>>

(***************************************************************************)
(* ExtractFromSessions.main: the talk loop and its gate.                   *)
(***************************************************************************)
TalkVisit ==
    /\ pc = "t_head"
    /\ j < Len(talk_urls)
    /\ j' = j + 1
    /\ GateEnter("talk")
    /\ \/ GateSkipped("t_head")
       \/ \E p \in Pages : GateClassify(p, "t_content", "t_wait")
    /\ rec' = NoRec
    /\ saved' = "none"
    /\ UNCHANGED <<prog, urls, i, rows, valid_sessions, validFile, talk_urls,
                   session_talks, docs, html_after_bound, paceVars>>
    /\ UNCHANGED <<fileVars, browser, procVars>>
    /\ ioErr' = FALSE

TalkLoopEnd ==
    /\ pc = "t_head"
    /\ j = Len(talk_urls)
    /\ pc' = "start"
    /\ GateLeave
    /\ UNCHANGED <<prog, urls, i, rows, rec, sessVars, paceVars>>
    /\ UNCHANGED <<fileVars, browser, procVars>>
    /\ ioErr' = FALSE

\* one outcome of a step of the talk gate
TalkOutcome(st, msg, pg, pss, err, werr, snap, allCf, bnd) ==
    [state |-> st, msg |-> msg, page |-> pg, passed |-> pss, slept |-> TRUE,
     stepErr |-> IF st = "Waiting" THEN "none" ELSE err,
     navWaitErr |-> IF st = "Waiting" THEN "none" ELSE werr,
     failedSnap |-> snap,
     sticky |-> (allCf /\ err = "none" /\ werr = "none"), bound |-> bnd]

\* "navigation" in s or "context was destroyed" in s or "navigating" in s
IsNavigationError(e) ==
    \/ MsgHas(e, "navigation")
    \/ MsgHas(e, "context was destroyed")
    \/ MsgHas(e, "navigating")

\* the handler with the test on "timeout" inverted
nav_wait_error_passes_inverted(w) == MsgHas(w, "timeout")

\* the handler of an error raised by the wait for navigation:
\* `if "timeout" not in nav_wait_str: passed = True; break`
nav_wait_error_passes(w) == ~MsgHas(w, "timeout")

\* `except Exception as nav_error` inside the polling loop; e was raised
\* with the page last inspected pg and the passed flag pss
InnerExcept(e, pg, pss) ==
    IF IsNavigationError(e)
    THEN {IF nav_wait_error_passes(w)
          THEN TalkOutcome("Cleared", "assumed_passed", pg, TRUE, e, w,
                           FALSE, TRUE, FALSE)
          ELSE TalkOutcome("Waiting", "detected", pg, pss, e, w,
                           FALSE, TRUE, FALSE) :
             w \in ErrKinds}
         \cup
         {IF still_blocked(p2)
          THEN TalkOutcome("Waiting", "detected", p2, pss, e, "none",
                           FALSE, is_cloudflare(p2), FALSE)
          ELSE TalkOutcome("Cleared", "passed_navigation", p2, TRUE, e,
                           "none", FALSE, is_cloudflare(p2), FALSE) :
             p2 \in Pages}
         \cup
         \* the settle sleep after `passed = True` raises inside the same try
         {IF nav_wait_error_passes(w)
          THEN TalkOutcome("Cleared", "assumed_passed", p2, TRUE, e, w,
                           FALSE, is_cloudflare(p2), FALSE)
          ELSE TalkOutcome("Waiting", "detected", p2, TRUE, e, w,
                           FALSE, is_cloudflare(p2), FALSE) :
             p2 \in {q \in Pages : ~still_blocked(q)}, w \in ErrKinds}
    ELSE {TalkOutcome("Waiting", "detected", pg, pss, e, "none",
                      FALSE, TRUE, FALSE)}

\* `except Exception as e` around the whole wait of the talk gate
OuterExcept(e, pg, pss) ==
    IF IsNavigationError(e)
    THEN {TalkOutcome("Failed", "could_not_verify", pg, pss, e, "none",
                      FALSE, TRUE, FALSE)}
         \cup
         {IF blocked_after_navigation(p)
          THEN TalkOutcome("Failed", "still_blocked_after_navigation", p,
                           pss, e, "none", FALSE, is_cloudflare(p), FALSE)
          ELSE TalkOutcome("Cleared", "passed_after_navigation", p,
                           TRUE, e, "none", FALSE, is_cloudflare(p), FALSE) :
             p \in Pages}
    ELSE {TalkOutcome("Failed", "wait_error", pg, pss, e, "none",
                      FALSE, TRUE, FALSE)}

\* the sleep at the head of the polling loop raised e: the handler around
\* the whole wait runs and waited has not been advanced
SleepRaised(e, pg, pss) ==
    {[o EXCEPT !.slept = FALSE] : o \in OuterExcept(e, pg, pss)}

\* the body of `while waited < max_wait` in the talk gate
TalkPollOutcomes(pg, pss) ==
    UNION {SleepRaised(e, pg, pss) : e \in ErrKinds}
    \cup
    UNION {InnerExcept(e, pg, pss) : e \in ErrKinds}
    \cup
    UNION {IF still_blocked(p)
           THEN {TalkOutcome("Waiting", "detected", p, pss, "none", "none",
                             FALSE, is_cloudflare(p), FALSE)}
           ELSE {TalkOutcome("Cleared", "passed_poll", p, TRUE, "none",
                             "none", FALSE, is_cloudflare(p), FALSE)}
                \cup
                \* the settle sleep after `passed = True` raises
                UNION {InnerExcept(e, p, TRUE) : e \in ErrKinds} :
              p \in Pages}

\* "navigation" in s or "context" in s, the test of the final check
IsFinalNavigationError(e) ==
    \/ MsgHas(e, "navigation")
    \/ MsgHas(e, "context")

\* `if not passed:` after the loop; bnd tells whether html_after holds a
\* value from an earlier final check of this run
TalkFinalOutcomes(pg, pss, bnd) ==
    IF pss
    THEN {TalkOutcome("Cleared", "passed_flag", pg, TRUE, "none", "none",
                      FALSE, TRUE, FALSE)}
    ELSE {IF still_cloudflare_talk(p)
          THEN TalkOutcome("Failed", "failed_budget", p, FALSE, "none",
                           "none", TRUE, is_cloudflare(p), TRUE)
          ELSE TalkOutcome("Cleared", "passed_final", p, FALSE, "none",
                           "none", FALSE, is_cloudflare(p), TRUE) :
             p \in Pages}
         \cup
         {IF IsFinalNavigationError(e)
          THEN TalkOutcome("Cleared", "assumed_navigated", pg, TRUE, e,
                           "none", FALSE, TRUE, atTitle)
          ELSE IF bnd \/ atTitle
          THEN TalkOutcome("Failed", "failed_budget", pg, FALSE, e,
                           "none", TRUE, TRUE, atTitle)
          ELSE TalkOutcome("Failed", "wait_error", pg, FALSE, e,
                           "none", FALSE, TRUE, FALSE) :
             e \in ErrKinds, atTitle \in BOOLEAN}

\* both tabulated by the page last inspected, the passed flag and
\* whether html_after is bound
TalkPollTable ==
    [pg \in Pages \cup {"blank"} |->
        [pss \in BOOLEAN |-> TalkPollOutcomes(pg, pss)]]

TalkFinalTable ==
    [pg \in Pages \cup {"blank"} |->
        [pss \in BOOLEAN |->
            [bnd \in BOOLEAN |-> TalkFinalOutcomes(pg, pss, bnd)]]]

TalkPoll ==
    /\ pc = "t_wait"
    /\ WaitBudgetLeft(waited)
    /\ \E o \in TalkPollTable[page][passed] :
          /\ waited' = IF o.slept THEN waited + check_interval ELSE waited
          /\ GateApply(o, "t_content", "t_wait", "t_head")
    /\ UNCHANGED <<prog, urls, i, rows, rec, sessVars, gateKind, paceVars>>
    /\ UNCHANGED <<fileVars, browser, procVars>>
    /\ ioErr' = FALSE

TalkFinal ==
    /\ pc = "t_wait"
    /\ ~WaitBudgetLeft(waited)
    /\ \E o \in TalkFinalTable[page][passed][html_after_bound] :
          GateApply(o, "t_content", "t_wait", "t_head")
    /\ UNCHANGED <<prog, urls, i, rows, rec, sessVars, gateKind, waited,
                   paceVars>>
    /\ UNCHANGED <<fileVars, browser, procVars>>
    /\ ioErr' = FALSE

(***************************************************************************)
(* After the talk gate: fetch the markup, test for 404, extract, validate  *)
(* and save the record to the session's JSON document.                     *)
(***************************************************************************)
\* "navigation" in s or "navigating" in s or "context" in s
IsContentNavigationError(e) ==
    \/ MsgHas(e, "navigation")
    \/ MsgHas(e, "navigating")
    \/ MsgHas(e, "context")

\* whether html was obtained, over every outcome of page.content() and of
\* the second read tried after a navigation error
ContentOutcomes ==
    {e = "none" \/ (IsContentNavigationError(e) /\ retryOk) :
        e \in MaybeErr, retryOk \in BOOLEAN}

IoOutcomes == {"ok", "open_fails", "dump_fails"}

DocUrls(doc) == {doc.talks[k].url : k \in DOMAIN doc.talks}

\* the save block without the test on existing_urls
SaveTalk_noDedup(doc, r, io) ==
    IF doc.corrupt
    THEN doc
    ELSE CASE io = "ok" -> [talks |-> Append(doc.talks, r), corrupt |-> FALSE]
           [] io = "open_fails" -> doc
           [] io = "dump_fails" -> [talks |-> <<>>, corrupt |-> TRUE]

\* the `Save immediately after each talk` block; io is the outcome of the
\* write: open(json_file, 'w') may fail, and json.dump may fail after the
\* file was truncated
SaveTalk(doc, r, io) ==
    IF doc.corrupt
    THEN doc
    ELSE IF r.url \in DocUrls(doc)
    THEN doc
    ELSE CASE io = "ok" -> [talks |-> Append(doc.talks, r), corrupt |-> FALSE]
           [] io = "open_fails" -> doc
           [] io = "dump_fails" -> [talks |-> <<>>, corrupt |-> TRUE]

\* which branch of the save block is taken
SaveBranch(doc, r, io) ==
    IF doc.corrupt THEN "load_failed"
    ELSE IF r.url \in DocUrls(doc) THEN "duplicate"
    ELSE IF io = "ok" THEN "appended"
    ELSE "write_failed"

\* json_file: session_id = session_url.split('/')[-1]
JsonFile(session_url) == Last(session_url)

\* the record extracted for a talk, NoRec when a `continue` is taken
\* before extract_talk_fields
TalkContentResults(talk_url) ==
    {IF gotHtml /\ ~IsNotFound(p)
     THEN extract_talk_fields(p, talk_url)
     ELSE NoRec :
        gotHtml \in ContentOutcomes, p \in Pages}

TalkUrls == {TalkUrl(sid, n) : sid \in {"MAR-A01"}, n \in 1..MaxTalks}

TalkContentTable ==
    [u \in TalkUrls |-> TalkContentResults(u)]

TalkContent ==
    /\ pc = "t_content"
    /\ \E r \in TalkContentTable[talk_urls[j]], io \in IoOutcomes :
          LET extracted == r # NoRec
              accepted == extracted /\ TitleAccepted(r.title)
              f == JsonFile(urls[i])
          IN  /\ rec' = r
              /\ session_talks' = IF accepted THEN Append(session_talks, r)
                                  ELSE session_talks
              /\ docs' = IF accepted
                         THEN [docs EXCEPT ![f] = SaveTalk(docs[f], r, io)]
                         ELSE docs
              /\ saved' = IF accepted THEN SaveBranch(docs[f], r, io)
                          ELSE "none"
    /\ pc' = "t_head"
    /\ GateLeave
    /\ UNCHANGED <<prog, urls, i, rows, valid_sessions, validFile, talk_urls,
                   j, paceVars>>
    /\ UNCHANGED <<fileVars, browser, procVars>>
    /\ ioErr' = FALSE

(***************************************************************************)
(* ExtractFilteredSessions.  extract_session_urls_from_page loads and      *)
(* scrolls the schedule page, writes its markup to debug_page.html and     *)
(* runs methods 1 to 7 over it.  Methods 3, 4, 5 and 7 and each request of *)
(* method 6 sit in their own try; the load, the debug write and the        *)
(* page.evaluate of method 1 do not, and an exception there reaches the    *)
(* except of the whole body, which returns [].  Method 2 matches the       *)
(* markup itself and so finds every code in it; the other methods read     *)
(* the same document.                                                      *)
(***************************************************************************)
RaisePoints == {"none", "load", "debug_write", "method1"}

MethodsEntered(rp) ==
    CASE rp = "none" -> 1..7
      [] rp = "method1" -> {1}
      [] OTHER -> {}

ExtractSessionUrls ==
    /\ prog = "XFS"
    /\ pc = "extract"
    /\ \E rp \in RaisePoints :
          /\ xraise' = rp
          /\ methods_run' = MethodsEntered(rp)
          /\ session_urls' = IF 2 \in MethodsEntered(rp)
                             THEN SortedSessionUrls(page_ids) ELSE <<>>
          /\ ioErr' = (rp = "debug_write")
    /\ pc' = "save"
    /\ UNCHANGED <<prog, urls, i, rows, rec, sessVars, gateVars, paceVars,
                   fileVars, browser, page_ids, event_file, wsdVars,
                   absVars, pureVars>>

\* the rest of main: event_urls.txt is written when the list is not empty,
\* then browser.close(); a write that raises leaves main before the close
SaveSessionUrls ==
    /\ prog = "XFS"
    /\ pc = "save"
    /\ \E io \in {"ok", "fails"} :
          LET written == session_urls # <<>> /\ io = "ok"
              raised == session_urls # <<>> /\ io = "fails"
          IN  /\ event_file' = IF written
                               THEN [exists |-> TRUE, lines |-> session_urls]
                               ELSE event_file
              /\ ioErr' = raised
              /\ pc' = IF raised THEN "crashed" ELSE "done"
              /\ browser' = IF raised THEN browser ELSE "closed"
    /\ UNCHANGED <<prog, urls, i, rows, rec, sessVars, gateVars, paceVars,
                   fileVars, page_ids, session_urls, methods_run, xraise,
                   wsdVars, absVars, pureVars>>

\* the page is loaded and read by calls outside any try (goto retry,
\* title, content, the evaluate of Strategy 1): one that raises leaves
\* collect_all_event_urls and main
\* a letter is found active when the sample requested it, the site
\* serves it and the request did not fail
CollectAllEventUrls ==
    /\ prog = "WSD"
    /\ pc = "collect"
    /\ \/ /\ pc' = "crashed"
          /\ ioErr' = FALSE
          /\ UNCHANGED event_urls
       \/ \E active \in SUBSET (SampledLetters \cap populated),
             rebuilt \in BOOLEAN, io \in {"ok", "fails"} :
             LET seen_urls == SeenUrls(hrefs, rebuilt, active)
                 \* `else` of `if seen_urls`: debug_schedule_page.html is
                 \* written, outside any try
                 raised == seen_urls = {} /\ io = "fails"
             IN  /\ ioErr' = raised
                 /\ pc' = IF raised THEN "crashed" ELSE "order"
                 /\ event_urls' = IF raised THEN event_urls
                                  ELSE SortedUrls(seen_urls)
    /\ UNCHANGED <<prog, urls, i, rows, rec, sessVars, gateVars, paceVars,
                   fileVars, browser, xfsVars, hrefs, gated, populated,
                   all_urls, absVars, pureVars>>

\* '/smt/2026/events/' in u and not any(f'MAR-{l}' in u for l in letters)
IsRealUrl(u) ==
    /\ SubSeq(u, 1, 3) = <<"smt", "2026", "events">>
    /\ ~\E k \in DOMAIN u : u[k] \in EventIds

\* the list left in the order collect_all_event_urls returned it
AllUrls_asReturned(ev) == ev

\* all_urls = real_urls + generated_urls
AllUrls(ev) ==
    LET real_urls == SelectSeq(ev, IsRealUrl)
        generated_urls == SelectSeq(ev, LAMBDA u : ~IsRealUrl(u))
    IN  real_urls \o generated_urls

\* the head of main once collect_all_event_urls has returned: an empty
\* list closes the browser and ends the run, any other list is ordered
OrderCandidates ==
    /\ prog = "WSD"
    /\ pc = "order"
    /\ IF event_urls = <<>>
       THEN /\ pc' = "done"
            /\ browser' = "closed"
            /\ UNCHANGED all_urls
       ELSE /\ pc' = "ordered"
            /\ all_urls' = AllUrls(event_urls)
            /\ UNCHANGED browser
    /\ ioErr' = FALSE
    /\ UNCHANGED <<prog, urls, i, rows, rec, sessVars, gateVars, paceVars,
                   fileVars, xfsVars, hrefs, gated, populated, event_urls,
                   absVars, pureVars>>

\* os.makedirs of the three output directories, after the persistent
\* context was launched and before the try block whose finally closes it
Prepare ==
    /\ prog = "EFS"
    /\ pc = "setup"
    /\ \E made \in BOOLEAN : pc' = IF made THEN "start" ELSE "crashed"
    /\ ioErr' = FALSE
    /\ UNCHANGED <<prog, urls, i, rows, rec, sessVars, gateVars, paceVars,
                   fileVars, browser, procVars>>

\* the loop is exhausted: the browser is released and, in the flat tools,
\* the final CSV files are written from rows
Finish ==
    /\ pc = "start"
    /\ i = Len(urls)
    /\ pc' = "done"
    /\ browser' = IF browser = "open" THEN "closed" ELSE browser
    /\ GateLeave
    /\ IF prog \in {"EA", "WS"}
       THEN \E io \in {"ok", "fails"} :
               /\ ioErr' = (io = "fails")
               /\ outAll' = IF io = "ok" THEN rows ELSE outAll
               /\ outHits' = IF io = "ok" THEN Hits(rows) ELSE outHits
       ELSE UNCHANGED <<outAll, outHits>> /\ ioErr' = FALSE
    /\ UNCHANGED <<prog, urls, i, rows, rec, sessVars, paceVars, tempAll,
                   tempHits, procVars>>

\* the tool is run again: every variable of main starts afresh,
\* valid_session_urls.txt is truncated, the JSON documents stay on disk;
\* the CSV files of the earlier run have been moved away
Restart ==
    /\ pc \in {"done", "crashed", "ordered", "extracted", "classified",
              "scrolled"}
    /\ pc' = Entry(prog)
    /\ browser' = Launched(prog, urls)
    /\ i' = 0
    /\ rows' = <<>>
    /\ rec' = NoRec
    /\ valid_sessions' = 0
    /\ validFile' = <<>>
    /\ talk_urls' = <<>>
    /\ j' = 0
    /\ session_talks' = <<>>
    /\ saved' = "none"
    /\ page' = "blank"
    /\ waited' = 0
    /\ passed' = FALSE
    /\ html_after_bound' = FALSE
    /\ gateKind' = "none"
    /\ gateState' = "Idle"
    /\ gateMsg' = "none"
    /\ failedSnap' = FALSE
    /\ stepErr' = "none"
    /\ navWaitErr' = "none"
    /\ sticky' = FALSE
    /\ pause' = 0
    /\ paceCounter' = 0
    /\ tempAll' = <<>>
    /\ tempHits' = <<>>
    /\ outAll' = <<>>
    /\ outHits' = <<>>
    /\ ioErr' = FALSE
    /\ session_urls' = <<>>
    /\ methods_run' = {}
    /\ xraise' = "none"
    /\ event_urls' = <<>>
    /\ all_urls' = <<>>
    /\ abstract' = NoAbstract
    /\ related' = FALSE
    /\ scroll_attempts' = 0
    /\ scrolls' = 0
    /\ UNCHANGED <<prog, urls, docs, page_ids, event_file, hrefs, gated,
                   cands, texts, populated>>

Next == FlatPass \/ ExtractSessionUrls \/ SaveSessionUrls
          \/ CollectAllEventUrls \/ OrderCandidates \/ ExtractAbstract
          \/ ClassifyTexts \/ ScrollPass \/ ScrollExit
          \/ Prepare
          \/ SessionVisit \/ SessionPoll \/ SessionFinal
          \/ SessionExtract \/ TalkVisit \/ TalkLoopEnd \/ TalkPoll
          \/ TalkFinal \/ TalkContent \/ Finish \/ Restart

Spec == Init /\ [][Next]_vars

(***************************************************************************)
(* Properties.                                                             *)
(***************************************************************************)
GateEnded == gateState \in {"Cleared", "Failed"}

\* C1: no session JSON document ever holds two records with the same
\* url, whatever records are saved, in one run or across reruns.
C1_NoDuplicateUrl ==
    \A f \in JsonFiles :
        \A a, b \in DOMAIN docs[f].talks :
            docs[f].talks[a].url = docs[f].talks[b].url => a = b

\* C1 witness: an accepted record whose url was already stored has just
\* been saved, and the document holds that url.
C1_Witness ==
    /\ saved = "duplicate"
    /\ \E f \in JsonFiles :
          \E k \in DOMAIN docs[f].talks : docs[f].talks[k].url = rec.url

StoredRecords ==
    {rows[k] : k \in DOMAIN rows}
      \cup {session_talks[k] : k \in DOMAIN session_talks}
      \cup UNION {{docs[f].talks[k] : k \in DOMAIN docs[f].talks} :
                    f \in JsonFiles}

\* C2: every record in rows, session_talks and the JSON documents has a
\* title that is non-empty, longer than 10 characters and not the
\* placeholder "Just a moment...".
C2_StoredTitlesValid ==
    \A r \in StoredRecords :
        /\ r.title # ""
        /\ Len(r.title) > 10
        /\ r.title # "Just a moment..."

\* C2 witness: a record titled with the placeholder, which is longer than
\* the minimum, was extracted and is not stored.
C2_Witness ==
    /\ rec.title = "Just a moment..."
    /\ Len(rec.title) > 10
    /\ rec.url # <<>>
    /\ rec \notin StoredRecords

\* C3: a gate whose every inspection showed a classified challenge page
\* and in which nothing raised ends Failed, after the whole budget, with
\* the FAILED snapshot written.
C3_StickyChallengeFails ==
    (GateEnded /\ sticky) =>
        /\ gateState = "Failed"
        /\ waited = max_wait
        /\ failedSnap

\* C4: when a gate is Cleared after waiting, the page last inspected
\* carries none of the signatures of the classification step.
C4_ClearedPageUnsigned ==
    (gateState = "Cleared" /\ waited > 0) => ~is_cloudflare(page)

\* C5: whenever a gate ends Failed, the FAILED snapshot was written or
\* its write attempted.
C5_FailedWritesSnapshot ==
    gateState = "Failed" => failedSnap

\* C6: a navigation error raised while polling never ends the gate
\* Failed in that step.
C6_NavigationErrorNotFailure ==
    (gateState = "Failed" /\ gateMsg # "failed_budget")
        => ~IsNavigationError(stepErr)

C8_GateBounded ==
    [][/\ waited' <= max_wait
       /\ gateState = "Waiting" =>
             \/ gateState' \in {"Cleared", "Failed"}
             \/ /\ gateState' = "Waiting"
                /\ waited' = waited + check_interval
                /\ waited' \div check_interval <= 20]_vars

\* C8 witness: a gate ended after 20 polls.
C8_Witness ==
    /\ GateEnded
    /\ waited = 20 * check_interval
    /\ waited = max_wait

\* C9: from one visit to the next the counter read by the pacing rule
\* has advanced by exactly one.
C9_CounterAdvancesPerVisit ==
    [][(i' = i + 1 /\ i >= 1) => paceCounter' = paceCounter + 1]_vars

\* C10: every visit after the first is preceded by the long pause when it
\* is the 10th, 20th, ... visit and by the short pause otherwise, and no
\* two consecutive visits are both preceded by the long pause.
C10_PacingRule ==
    [][(i' = i + 1 /\ i >= 1) =>
          /\ pause' = IF i' % 10 = 0 THEN 2000 ELSE 500
          /\ ~(pause = 2000 /\ pause' = 2000)]_vars

(***************************************************************************)
(* C11: in the flat tools, whenever the accepted records reach a multiple  *)
(* of 100 both temp files are written from the records held at that point  *)
(* before the next URL is visited (the whole set and its keyword subset),  *)
(* and the end of the run writes the final files from all records; a write *)
(* that raised is left aside.                                              *)
(***************************************************************************)
C11_CheckpointPerHundredRecords ==
    [][/\ (/\ prog \in {"EA", "WS"}
           /\ Len(rows') = Len(rows) + 1
           /\ Len(rows') % CheckpointEvery = 0
           /\ ~ioErr')
          => (tempAll' = rows' /\ tempHits' = Hits(rows'))
       /\ (/\ prog \in {"EA", "WS"}
           /\ pc = "start" /\ pc' = "done"
           /\ ~ioErr')
          => (outAll' = rows /\ outHits' = Hits(rows))]_vars

(***************************************************************************)
(* C12: in the flat tools, whatever the input list, the accumulated        *)
(* records and the final file of all events hold at most one record per    *)
(* URL.                                                                    *)
(***************************************************************************)
C12_OneRecordPerUrl ==
    prog \in {"EA", "WS"} =>
        /\ \A a, b \in 1..Len(rows) : rows[a].url = rows[b].url => a = b
        /\ \A a, b \in 1..Len(outAll) :
              outAll[a].url = outAll[b].url => a = b

(***************************************************************************)
(* C13: a failure on one URL never ends a per-URL loop: the run goes on to *)
(* the next URL, a URL that failed adds no record, and the records         *)
(* accumulated before it are kept.                                         *)
(***************************************************************************)
C13_LoopSurvivesFailure ==
    [][pc = "start" =>
         /\ pc' # "crashed"
         /\ Len(rows') >= Len(rows)
         /\ SubSeq(rows', 1, Len(rows)) = rows
         /\ (i' = i + 1 /\ rec' = NoRec /\ prog \in {"EA", "WS"})
               => rows' = rows]_vars

(***************************************************************************)
(* C14: no run leaves main, by the end of the loop or by an exception,     *)
(* with the browser it acquired still open.                                *)
(***************************************************************************)
C14_BrowserClosedOnExit ==
    pc \in {"done", "crashed"} => browser # "open"

\* a file write of the last step raised
WriteFailed == ioErr \/ saved = "write_failed"

(***************************************************************************)
(* C15: a file write that fails is skipped for that write alone: the run   *)
(* goes on, the records accumulated before it are still held, and a failed *)
(* write of the debug snapshot leaves the URLs that discovery returns as   *)
(* they would be without the failure.                                      *)
(***************************************************************************)
C15_FailedWriteSkipped ==
    [][WriteFailed' =>
         /\ (prog = "XFS" /\ xraise' = "debug_write")
               => session_urls' = SortedSessionUrls(page_ids)
         /\ prog \in {"EA", "WS"}
               => (pc' # "crashed" /\ SubSeq(rows', 1, Len(rows)) = rows)
         /\ prog = "EFS"
               => \A f \in JsonFiles :
                     SubSeq(docs'[f].talks, 1, Len(docs[f].talks))
                         = docs[f].talks]_vars

(***************************************************************************)
(* C16: a call of extract_session_urls_from_page whose page has loaded and *)
(* whose snapshot was written enters all seven methods, whether or not an  *)
(* earlier one raised, and returns every URL that one of them finds.       *)
(***************************************************************************)
C16_AllMethodsRun ==
    (prog = "XFS" /\ pc = "save" /\ xraise \in {"none", "method1"}) =>
        /\ methods_run = 1..7
        /\ session_urls = SortedSessionUrls(page_ids)

(***************************************************************************)
(* C17 as stated: the list WebScraper.main iterates over is in ascending   *)
(* order of the URLs.                                                      *)
(***************************************************************************)
C17_VisitedAscending ==
    (prog = "WSD" /\ pc = "ordered") =>
        \A a, b \in DOMAIN all_urls :
            a < b => Rank(all_urls[a]) < Rank(all_urls[b])

\* the position of a URL in the list being visited; 0 when it is not there
VisitIndex(u) ==
    IF \E k \in DOMAIN urls : urls[k] = u
    THEN CHOOSE k \in DOMAIN urls : urls[k] = u
    ELSE 0

(***************************************************************************)
(* C17, amended: the list holds the discovered URLs, first those under     *)
(* /smt/2026/events/ that carry no MAR code and then all others, each      *)
(* group in ascending order; WebScraper's records stand in the order of    *)
(* the visits.                                                             *)
(***************************************************************************)
C17_RealFirstThenAscending ==
    /\ (prog = "WSD" /\ pc = "ordered") =>
          /\ {all_urls[k] : k \in DOMAIN all_urls}
                = {event_urls[k] : k \in DOMAIN event_urls}
          /\ Len(all_urls) = Len(event_urls)
          /\ \A a, b \in DOMAIN all_urls :
                a < b =>
                  \/ IsRealUrl(all_urls[a]) /\ ~IsRealUrl(all_urls[b])
                  \/ /\ IsRealUrl(all_urls[a]) = IsRealUrl(all_urls[b])
                     /\ Rank(all_urls[a]) < Rank(all_urls[b])
    /\ prog = "WS" =>
          /\ \A a \in DOMAIN rows : VisitIndex(rows[a].url) \in 1..i
          /\ \A a \in 1..(Len(rows) - 1) :
                VisitIndex(rows[a].url) < VisitIndex(rows[a + 1].url)

C17_Witness ==
    /\ prog = "WSD"
    /\ pc = "ordered"
    /\ Len(all_urls) >= 3
    /\ all_urls[1] = KeynoteUrl
    /\ ~IsRealUrl(all_urls[2])
    /\ Rank(all_urls[1]) > Rank(all_urls[2])

\* no identifier occurs twice in the list of the identifiers of a result
OnePerIdentifier(ids) ==
    \A a, b \in DOMAIN ids : ids[a] = ids[b] => a = b

TalkIdentifier(u) == <<session_match(u), Last(u)>>

\* Method 3 of extract_talks_from_session for one talk number found in
\* the text of the session page: url1 and url2, as sorted(set(...))
TalkNumberUrls(sid, n) ==
    <<TalkUrl(sid, n), <<"smt", "2026", "events", sid, ToString(n)>>>>

(***************************************************************************)
(* C18: the list each discovery routine returns holds one URL per          *)
(* identifier: collect_all_event_urls, extract_session_urls_from_page,     *)
(* extract_talks_from_session and the fallback of load_session_urls.       *)
(***************************************************************************)
C18_OneUrlPerIdentifier ==
    /\ prog = "WSD" =>
          OnePerIdentifier([k \in DOMAIN event_urls |->
                               Identifier(event_urls[k])])
    /\ prog = "XFS" =>
          OnePerIdentifier([k \in DOMAIN session_urls |->
                               session_match(session_urls[k])])
    /\ prog = "EFS" =>
          /\ OnePerIdentifier([k \in DOMAIN talk_urls |->
                                  TalkIdentifier(talk_urls[k])])
          /\ OnePerIdentifier([k \in 1..2 |->
                  TalkIdentifier(TalkNumberUrls("MAR-A01", 1)[k])])
          /\ OnePerIdentifier([k \in DOMAIN FallbackSessionUrls |->
                                  session_match(FallbackSessionUrls[k])])

(***************************************************************************)
(* C19: when the page was not gated and the structural strategies found    *)
(* event links on it, collect_all_event_urls returns only URLs that those  *)
(* strategies found.                                                       *)
(***************************************************************************)
C19_NoSynthesisAfterDiscovery ==
    (prog = "WSD" /\ pc \in {"order", "ordered"} /\ ~gated /\ hrefs # {}) =>
        \A k \in DOMAIN event_urls :
            event_urls[k] \in Strategy1(hrefs) \cup Strategy5(hrefs)

\* the candidates of a page in the order of the cascade
CascadeOrder(c) ==
    IF c.tool = "WS" THEN <<"s1", "s2", "s3", "s3b", "s4">>
    ELSE <<"s1", "s2", "s3", "s4">>

(***************************************************************************)
(* C20: the abstract is the first candidate of the cascade that is longer  *)
(* than 50 characters, returned whole when it is within the maximum and    *)
(* cut to the maximum when it is longer; when no candidate is longer than  *)
(* 50 characters no abstract is returned.                                  *)
(***************************************************************************)
C20_AbstractLengthBounds ==
    (prog = "ATF" /\ pc = "extracted") =>
        LET order == CascadeOrder(cands)
            long == {k \in DOMAIN order : cands[order[k]] > MinAbstractLen}
        IN  IF long = {}
            THEN abstract = NoAbstract
            ELSE LET first == CHOOSE k \in long : \A m \in long : k <= m
                 IN  /\ abstract.from = order[first]
                     /\ abstract.len = Truncate(cands[order[first]])

\* what strategy k of the cascade accepts on its own
StrategyAbstract(k, c) ==
    CASE k = 1 -> Strategy1Abstract(c)
      [] k = 2 -> Strategy2Abstract(c)
      [] k = 3 -> Strategy3Abstract(c)
      [] k = 4 -> Strategy4Abstract(c)

(***************************************************************************)
(* C21: the abstract returned by extract_talk_fields is the candidate      *)
(* accepted by the lowest-numbered strategy that accepts one (heading,     *)
(* container, label, full-text regex), and no abstract when none accepts.  *)
(***************************************************************************)
C21_CascadePriority ==
    (prog = "ATF" /\ pc = "extracted") =>
        LET accepting == {k \in 1..4 : StrategyAbstract(k, cands) # NoAbstract}
        IN  IF accepting = {}
            THEN abstract = NoAbstract
            ELSE \E k \in accepting :
                    /\ \A m \in accepting : k <= m
                    /\ abstract = StrategyAbstract(k, cands)

\* the heading strategy and the full-text regex accept different text and
\* the heading text is returned
C21_Witness ==
    /\ prog = "ATF"
    /\ pc = "extracted"
    /\ Strategy1Abstract(cands) # NoAbstract
    /\ Strategy4Abstract(cands) # NoAbstract
    /\ Strategy1Abstract(cands).len # Strategy4Abstract(cands).len
    /\ abstract = Strategy1Abstract(cands)

(***************************************************************************)
(* C22: a save to a session document never costs what the document held:   *)
(* a document that could be loaded before a step can be loaded after it    *)
(* and still starts with the records it had.                               *)
(***************************************************************************)
C22_SaveKeepsStoredRecords ==
    [][\A f \in JsonFiles :
          ~docs[f].corrupt =>
              /\ ~docs'[f].corrupt
              /\ SubSeq(docs'[f].talks, 1, Len(docs[f].talks))
                    = docs[f].talks]_vars

(***************************************************************************)
(* C23: in the flat tools, once the markup of a loaded page that passed    *)
(* the gate has been read, a record of it is kept exactly when its title   *)
(* is acceptable; nothing else in the markup suppresses the record.        *)
(***************************************************************************)
FlatRead ==
    prog \in {"EA", "WS"} /\ i' = i + 1 /\ page' # "blank"

RecordKept ==
    rows' = Append(rows, extract_talk_fields(page', urls[i + 1]))

C23_TitleAloneDecides ==
    [][FlatRead => (TitleAccepted(guess_text(page')) <=> RecordKept)]_vars

(***************************************************************************)
(* C24 as stated: when event_urls.txt is absent, both loaders yield a      *)
(* non-empty generated list and the run goes on with a browser.            *)
(***************************************************************************)
C24_BothLoadersGenerate ==
    (prog \in {"EA", "EFS"} /\ ~event_file.exists) =>
        (urls # <<>> /\ browser # "none")

(***************************************************************************)
(* C24: when event_urls.txt is absent, load_session_urls yields the        *)
(* generated list, which is not empty, and ExtractFromSessions goes on     *)
(* over it; load_urls yields the empty list and ExtractAbstracts ends      *)
(* before a browser is launched, with no record.                           *)
(***************************************************************************)
C24_OnlySessionLoaderGenerates ==
    ~event_file.exists =>
        /\ prog = "EFS" =>
              (urls = FallbackSessionUrls /\ urls # <<>> /\ browser # "none")
        /\ prog = "EA" => (urls = <<>> /\ browser = "none" /\ rows = <<>>)

C24_Witness ==
    /\ prog = "EFS"
    /\ ~event_file.exists
    /\ pc = "done"
    /\ i = Len(FallbackSessionUrls)

(***************************************************************************)
(* C25: a schedule page whose challenge is still present when the wait     *)
(* for it ends is skipped by extract_session_urls_from_page: no method     *)
(* harvests links from it.                                                 *)
(***************************************************************************)
C25_FailedPageNotHarvested ==
    (prog = "XFS" /\ gated /\ pc \in {"save", "done", "crashed"}) =>
        methods_run = {}

\* term occurs in text as a substring, letters compared without regard to
\* case
OccursIn(term, text) ==
    \E p \in 1..Len(text) :
       /\ p + Len(term) - 1 <= Len(text)
       /\ LowerChars(SubSeq(text, p, p + Len(term) - 1)) = LowerChars(term)

(***************************************************************************)
(* C26: is_superconducting_qubit_related returns TRUE exactly when a term  *)
(* of the vocabulary occurs, without regard to case, as a substring of     *)
(* title + " " + abstract; a second call on the same texts returns the     *)
(* same value.                                                             *)
(***************************************************************************)
C26_RelatedIffTermOccurs ==
    (prog = "CLS" /\ pc = "classified") =>
        (related <=>
            \E a \in DOMAIN KeywordChars :
               OccursIn(KeywordChars[a],
                        texts.title \o <<" ">> \o texts.abstract))

\* a term found across the join of an upper-case title and an abstract
C26_Witness ==
    /\ prog = "CLS"
    /\ pc = "classified"
    /\ texts.title = <<"C", "Z">>
    /\ texts.abstract = <<"G", "a", "t", "e", " ", "x">>
    /\ related

\* the talk loop moves to its next talk
TalkVisited == prog = "EFS" /\ j' = j + 1

(***************************************************************************)
(* C27: in ExtractFromSessions.main a talk is visited only when its        *)
(* session has talks and is already the last line of                       *)
(* valid_session_urls.txt; during a run no line of that file is removed    *)
(* or changed, whatever the talks do; and a line is added only for a       *)
(* session whose talk list is not empty.                                   *)
(***************************************************************************)
C27_MarkedBeforeTalks ==
    [][/\ TalkVisited =>
            /\ talk_urls # <<>>
            /\ validFile # <<>>
            /\ validFile[Len(validFile)] = urls[i]
       /\ (prog = "EFS" /\ pc \notin {"done", "crashed"}) =>
            /\ SubSeq(validFile', 1, Len(validFile)) = validFile
            /\ validFile' # validFile =>
                  /\ talk_urls' # <<>>
                  /\ validFile' = Append(validFile, urls[i])
       /\ (prog = "EFS" /\ pc = "s_extract" /\ talk_urls' = <<>>) =>
            (validFile' = validFile /\ pc' = "start")]_vars

\* a talk of a marked session was visited and its save failed, and the
\* marker is still there
C27_Witness ==
    /\ prog = "EFS"
    /\ j >= 1
    /\ saved = "write_failed"
    /\ validFile # <<>>
    /\ validFile[Len(validFile)] = urls[i]

(***************************************************************************)
(* C28: for every letter of which the site serves an identifier among the  *)
(* first numbers, the list collect_all_event_urls returns holds the URL of *)
(* every number of that letter.                                            *)
(***************************************************************************)
C28_PopulatedLettersCovered ==
    (prog = "WSD" /\ pc \in {"order", "ordered"}) =>
        \A l \in populated : \A b \in DOMAIN EventNums :
           \E k \in DOMAIN event_urls :
              event_urls[k] = EventUrl(EventId(l, EventNums[b]))

(***************************************************************************)
(* C29: whatever heights the page reports, the scroll loop of              *)
(* collect_all_event_urls makes at most 50 passes and that of              *)
(* extract_session_urls_from_page at most 30.                              *)
(***************************************************************************)
C29_ScrollLoopsBounded ==
    /\ prog = "WSC" => scrolls <= WsMaxScrolls
    /\ prog = "XSC" => scrolls <= XfsMaxScrolls

(***************************************************************************)
(* C30: collect_all_event_urls never returns an empty list, so it never    *)
(* writes debug_schedule_page.html and WebScraper.main never takes its     *)
(* 'No event URLs found' exit.                                             *)
(***************************************************************************)
C30_DiscoveryNeverEmpty ==
    prog = "WSD" =>
        /\ pc \in {"order", "ordered"} => event_urls # <<>>
        /\ ~ioErr
        /\ pc # "done"

\* the page was a challenge page, no link was harvested and no sampled
\* letter answered, and the list is the whole generated range
C30_Witness ==
    /\ prog = "WSD"
    /\ pc = "ordered"
    /\ gated
    /\ hrefs = {}
    /\ populated = {}
    /\ Len(event_urls) = Cardinality(EventIds)

====
